---- MODULE Spec2Model ----
(***************************************************************************)
(* Wait-duration resolution of the Step Functions interpreter:             *)
(* SecondsPath and SecondsPathVar                                          *)
(* (moto/stepfunctions/parser/asl/component/state/wait/wait_function/      *)
(* seconds_path.py).                                                       *)
(*                                                                         *)
(* Several executions, each with its own Environment, call                 *)
(* _get_wait_seconds on one shared SecondsPath instance (sp) or one shared *)
(* SecondsPathVar instance (spv); their steps interleave.                  *)
(***************************************************************************)
EXTENDS Integers, Sequences, FiniteSets, TLC

\* ------------------------------------------------------------------ bounds
\* integers of the input data range over -MaxInt..MaxInt
MaxInt == 1
\* how many times one execution resolves against its environment
MaxRounds == 2
\* frames of the evaluation stack below the state input
MaxBelow == 1

Execs == {"e1", "e2"}
Paths == {"$.wait", "$.n"}

\* ------------------------------------------------------- python values
\* A JSON / python value: t is the python type, i the number (an int, a
\* bool as 0/1, a float in tenths), s the text, l the elements of a list,
\* d the items of a dict.
IntV(n) == [t |-> "int", i |-> n, s |-> "", l |-> <<>>, d |-> <<>>]
BoolV(b) == [t |-> "bool", i |-> IF b THEN 1 ELSE 0, s |-> "", l |-> <<>>, d |-> <<>>]
FloatV(tenths) == [t |-> "float", i |-> tenths, s |-> "", l |-> <<>>, d |-> <<>>]
StrV(s) == [t |-> "str", i |-> 0, s |-> s, l |-> <<>>, d |-> <<>>]
NoneV == [t |-> "NoneType", i |-> 0, s |-> "", l |-> <<>>, d |-> <<>>]
ListV(l) == [t |-> "list", i |-> 0, s |-> "", l |-> l, d |-> <<>>]
DictV(d) == [t |-> "dict", i |-> 0, s |-> "", l |-> <<>>, d |-> d]
\* a local that holds nothing (yet)
Unset == [t |-> "unset", i |-> 0, s |-> "", l |-> <<>>, d |-> <<>>]

Item(k, v) == [k |-> k, v |-> v]

Integers_ == {IntV(n) : n \in -MaxInt..MaxInt}
NonIntegral == {StrV("soon"), FloatV(30), FloatV(-15), NoneV, ListV(<<1, 2>>),
                DictV(<<Item("a", IntV(1))>>)}
Values == Integers_ \cup {BoolV(TRUE), BoolV(FALSE)} \cup NonIntegral

\* the state input whose field "wait" holds v
InputDoc(v) == DictV(<<Item("wait", v)>>)
\* what lies on the stack below the state input
BelowFrame == InputDoc(IntV(0))
Below == [k \in 1..MaxBelow |-> BelowFrame]

\* ------------------------------------------------ python str() / repr()
Digit(d) == <<"0", "1", "2", "3", "4", "5", "6", "7", "8", "9">>[d + 1]

RECURSIVE NatToStr(_)
NatToStr(n) == IF n < 10 THEN Digit(n) ELSE NatToStr(n \div 10) \o Digit(n % 10)

IntToStr(n) == IF n < 0 THEN "-" \o NatToStr(-n) ELSE NatToStr(n)

FloatToStr(tenths) ==
    LET a == IF tenths < 0 THEN -tenths ELSE tenths
    IN  (IF tenths < 0 THEN "-" ELSE "") \o NatToStr(a \div 10) \o "." \o Digit(a % 10)

RECURSIVE JoinInts(_)
JoinInts(l) ==
    IF l = <<>> THEN ""
    ELSE IF Len(l) = 1 THEN IntToStr(l[1])
    ELSE IntToStr(l[1]) \o ", " \o JoinInts(Tail(l))

RECURSIVE PyStr(_)
RECURSIVE PyRepr(_)
RECURSIVE JoinItems(_)
\* f"{seconds}": str() of the value
PyStr(v) ==
    CASE v.t = "int" -> IntToStr(v.i)
      [] v.t = "bool" -> (IF v.i = 1 THEN "True" ELSE "False")
      [] v.t = "float" -> FloatToStr(v.i)
      [] v.t = "str" -> v.s
      [] v.t = "NoneType" -> "None"
      [] v.t = "list" -> "[" \o JoinInts(v.l) \o "]"
      [] v.t = "dict" -> "{" \o JoinItems(v.d) \o "}"
PyRepr(v) == IF v.t = "str" THEN "'" \o v.s \o "'" ELSE PyStr(v)
JoinItems(d) ==
    IF d = <<>> THEN ""
    ELSE LET one == "'" \o d[1].k \o "': " \o PyRepr(d[1].v)
         IN  IF Len(d) = 1 THEN one ELSE one \o ", " \o JoinItems(Tail(d))

\* isinstance(seconds, int): bool is a subclass of int
isinstance_int(v) == v.t \in {"int", "bool"}


\* ------------------------------------------------------- failure model
StatesRuntime == "StatesRuntime"
StatesTaskFailed == "StatesTaskFailed"
ExecutionFailed == "ExecutionFailed"

\* StatesErrorNameType.to_name(): the canonical name of the category
to_name(typ) ==
    CASE typ = StatesRuntime -> "States.Runtime"
      [] typ = StatesTaskFailed -> "States.TaskFailed"

StatesErrorName(typ) == [typ |-> typ, error_name |-> to_name(typ)]

ExecutionFailedEventDetails(error, cause) == [error |-> error, cause |-> cause]

EventDetails(executionFailedEventDetails) ==
    [executionFailedEventDetails |-> executionFailedEventDetails]

FailureEvent(env_, error_name, event_type, event_details) ==
    [env |-> env_, error_name |-> error_name, event_type |-> event_type,
     event_details |-> event_details]

NoEvent == FailureEvent("none", [typ |-> "none", error_name |-> ""], "none",
                        EventDetails(ExecutionFailedEventDetails("", "")))

\* how a call ends: it returns, or raises FailureEventException(failure_event)
Returns == [raised |-> FALSE, failure_event |-> NoEvent]
Raise(failure_event) == [raised |-> TRUE, failure_event |-> failure_event]

CauseNotLong == "The SecondsPath parameter cannot be parsed as a long value: "
CauseNegative == "The SecondsPath parameter references a negative value: "

\* ------------------------------------------------------------ resolvers
VariableSample(expression) == [expression |-> expression]

SecondsPath_init(path) == [path |-> path]

SecondsPathVar_init_no_expression(variable_sample) ==
    [path |-> "", variable_sample |-> variable_sample]

SecondsPathVar_init(variable_sample) ==
    [path |-> variable_sample.expression, variable_sample |-> variable_sample]

\* variants of the validation a slip in the code would produce
ValidateVariant(self_, env_, seconds, accepted, not_long, negative_type) ==
    IF accepted THEN Returns
    ELSE LET error_type == IF not_long THEN StatesRuntime ELSE negative_type
             assignment_description == self_.path \o " == " \o PyStr(seconds)
             cause == IF not_long THEN CauseNotLong \o assignment_description
                      ELSE CauseNegative \o assignment_description
         IN  Raise(FailureEvent(env_, StatesErrorName(error_type), ExecutionFailed,
                   EventDetails(ExecutionFailedEventDetails(to_name(error_type), cause))))

\* seconds > 0 in place of seconds >= 0
validate_seconds_value_positive(self_, env_, seconds) ==
    ValidateVariant(self_, env_, seconds, isinstance_int(seconds) /\ seconds.i > 0,
                    ~isinstance_int(seconds), StatesRuntime)

\* the range check left out
validate_seconds_value_no_range(self_, env_, seconds) ==
    ValidateVariant(self_, env_, seconds, isinstance_int(seconds),
                    ~isinstance_int(seconds), StatesRuntime)

\* the range check made before the type check
validate_seconds_value_range_first(self_, env_, seconds) ==
    ValidateVariant(self_, env_, seconds, isinstance_int(seconds) /\ seconds.i >= 0,
                    ~(seconds.t \in {"int", "bool", "float"} /\ seconds.i < 0),
                    StatesRuntime)

\* another error category for the negative value
validate_seconds_value_other_error(self_, env_, seconds) ==
    ValidateVariant(self_, env_, seconds, isinstance_int(seconds) /\ seconds.i >= 0,
                    ~isinstance_int(seconds), StatesTaskFailed)

_validate_seconds_value(self_, env_, seconds) ==
    IF isinstance_int(seconds) /\ seconds.i >= 0 THEN Returns
    ELSE LET error_type == StatesRuntime
             assignment_description == self_.path \o " == " \o PyStr(seconds)
             cause == IF ~isinstance_int(seconds)
                      THEN CauseNotLong \o assignment_description
                      ELSE CauseNegative \o assignment_description
         IN  Raise(FailureEvent(env_, StatesErrorName(error_type), ExecutionFailed,
                   EventDetails(ExecutionFailedEventDetails(to_name(error_type), cause))))

\* ------------------------------------------------------ value extractor
NoSuchJsonPathError == "NoSuchJsonPathError"
PathKey(path) == CASE path = "$.wait" -> "wait" [] path = "$.n" -> "n" [] OTHER -> ""

\* extract_json(path, data): the value at path, or found = FALSE
extract_json(path, data) ==
    LET hits == {k \in DOMAIN data.d : data.d[k].k = PathKey(path)}
    IN  IF data.t = "dict" /\ hits # {}
        THEN [found |-> TRUE, value |-> data.d[CHOOSE k \in hits : TRUE].v]
        ELSE [found |-> FALSE, value |-> Unset]


\* ---------------------------------------------------------------- state
VARIABLES
    sp,       \* the shared SecondsPath instance
    spv,      \* the shared SecondsPathVar instance
    env,      \* env[e]: the Environment of execution e (stack, variables)
    self,     \* self[e]: the resolver execution e calls ("sp" / "spv")
    pc,       \* pc[e]: where execution e is in _get_wait_seconds
    seconds,  \* seconds[e]: the local `seconds` of e's call
    entry,    \* entry[e]: e's stack when its call began
    result    \* result[e]: how each of e's calls ended, in order

vars == <<sp, spv, env, self, pc, seconds, entry, result>>

Top(stack) == stack[Len(stack)]
Pop(stack) == SubSeq(stack, 1, Len(stack) - 1)

Resolver(e) == IF self[e] = "sp" THEN sp ELSE spv

\* how a call of _get_wait_seconds ends
Returned(value) ==
    [kind |-> "return", value |-> value, failure_event |-> NoEvent, error |-> ""]
Raised(failure_event) ==
    [kind |-> "raise", value |-> Unset, failure_event |-> failure_event, error |-> ""]
Failed(error) ==
    [kind |-> "error", value |-> Unset, failure_event |-> NoEvent, error |-> error]

FirstPc(r) == IF r = "sp" THEN "extract" ELSE "eval"

Init ==
    /\ sp \in {SecondsPath_init(p) : p \in Paths}
    /\ spv \in {SecondsPathVar_init(VariableSample(x)) : x \in Paths}
    /\ env = [e \in Execs |-> [stack |-> Below, variables |-> NoneV]]
    /\ self = [e \in Execs |-> "none"]
    /\ pc = [e \in Execs |-> "idle"]
    /\ seconds = [e \in Execs |-> Unset]
    /\ entry = [e \in Execs |-> Below]
    /\ result = [e \in Execs |-> <<>>]

\* The evaluator enters a wait state: the state input is on top of the
\* stack, the variables hold v, and the resolver is called.
Enter(e) ==
    /\ pc[e] = "idle"
    /\ \E r \in {"sp", "spv"}, v \in Values :
         LET stack == Append(env[e].stack, InputDoc(v))
         IN  /\ env' = [env EXCEPT ![e] = [stack |-> stack, variables |-> v]]
             /\ self' = [self EXCEPT ![e] = r]
             /\ pc' = [pc EXCEPT ![e] = FirstPc(r)]
             /\ entry' = [entry EXCEPT ![e] = stack]
    /\ UNCHANGED <<sp, spv, seconds, result>>

\* The same resolver is called again on the same environment.
Again(e) ==
    /\ pc[e] = "done"
    /\ Len(result[e]) < MaxRounds
    /\ pc' = [pc EXCEPT ![e] = FirstPc(self[e])]
    /\ entry' = [entry EXCEPT ![e] = env[e].stack]
    /\ UNCHANGED <<sp, spv, env, self, seconds, result>>

\* inp = env.stack.pop() in place of env.stack[-1]
PathExtract_pop(e) ==
    /\ pc[e] = "extract"
    /\ Len(env[e].stack) > 0
    /\ LET inp == Top(env[e].stack)
           got == extract_json(sp.path, inp)
       IN  /\ env' = [env EXCEPT ![e].stack = Pop(env[e].stack)]
           /\ IF got.found
              THEN /\ seconds' = [seconds EXCEPT ![e] = got.value]
                   /\ pc' = [pc EXCEPT ![e] = "validate"]
                   /\ UNCHANGED result
              ELSE /\ result' = [result EXCEPT ![e] = Append(@, Failed(NoSuchJsonPathError))]
                   /\ pc' = [pc EXCEPT ![e] = "done"]
                   /\ UNCHANGED seconds
    /\ UNCHANGED <<sp, spv, self, entry>>

\* SecondsPath._get_wait_seconds, lines 59-60
PathExtract(e) ==
    /\ pc[e] = "extract"
    /\ LET inp == Top(env[e].stack)
           got == extract_json(sp.path, inp)
       IN  IF got.found
           THEN /\ seconds' = [seconds EXCEPT ![e] = got.value]
                /\ pc' = [pc EXCEPT ![e] = "validate"]
                /\ UNCHANGED result
           ELSE /\ result' = [result EXCEPT ![e] = Append(@, Failed(NoSuchJsonPathError))]
                /\ pc' = [pc EXCEPT ![e] = "done"]
                /\ UNCHANGED seconds
    /\ UNCHANGED <<sp, spv, env, self, entry>>

\* SecondsPathVar._get_wait_seconds, line 73: the sample's evaluation
\* pushes its result
VarEval(e) ==
    /\ pc[e] = "eval"
    /\ env' = [env EXCEPT ![e].stack = Append(@, env[e].variables)]
    /\ pc' = [pc EXCEPT ![e] = "pop"]
    /\ UNCHANGED <<sp, spv, self, seconds, entry, result>>

\* seconds = env.stack[-1]: the value is left on the stack
VarPop_peek(e) ==
    /\ pc[e] = "pop"
    /\ seconds' = [seconds EXCEPT ![e] = Top(env[e].stack)]
    /\ pc' = [pc EXCEPT ![e] = "validate"]
    /\ UNCHANGED <<sp, spv, env, self, entry, result>>

\* self.seconds = env.stack.pop(): the value kept on the shared instance,
\* where every call in progress reads it
VarPop_shared(e) ==
    /\ pc[e] = "pop"
    /\ seconds' = [x \in Execs |->
                     IF x = e \/ pc[x] = "validate" THEN Top(env[e].stack)
                     ELSE seconds[x]]
    /\ env' = [env EXCEPT ![e].stack = Pop(@)]
    /\ pc' = [pc EXCEPT ![e] = "validate"]
    /\ UNCHANGED <<sp, spv, self, entry, result>>

\* SecondsPathVar._get_wait_seconds, line 74
VarPop(e) ==
    /\ pc[e] = "pop"
    /\ seconds' = [seconds EXCEPT ![e] = Top(env[e].stack)]
    /\ env' = [env EXCEPT ![e].stack = Pop(@)]
    /\ pc' = [pc EXCEPT ![e] = "validate"]
    /\ UNCHANGED <<sp, spv, self, entry, result>>

\* the failure event is also pushed on the environment's stack
ValidateAndReturn_push(e) ==
    /\ pc[e] = "validate"
    /\ LET v == _validate_seconds_value(Resolver(e), e, seconds[e])
       IN  /\ result' = [result EXCEPT ![e] =
                           Append(@, IF v.raised THEN Raised(v.failure_event)
                                     ELSE Returned(seconds[e]))]
           /\ env' = [env EXCEPT ![e].stack =
                        IF v.raised
                        THEN Append(@, StrV(v.failure_event.event_details
                                             .executionFailedEventDetails.cause))
                        ELSE @]
    /\ seconds' = [seconds EXCEPT ![e] = Unset]
    /\ pc' = [pc EXCEPT ![e] = "done"]
    /\ UNCHANGED <<sp, spv, self, entry>>

\* lines 61-62 and 75-76: validate, then return seconds
ValidateAndReturn(e) ==
    /\ pc[e] = "validate"
    /\ LET v == _validate_seconds_value(Resolver(e), e, seconds[e])
       IN  result' = [result EXCEPT ![e] =
                        Append(@, IF v.raised THEN Raised(v.failure_event)
                                  ELSE Returned(seconds[e]))]
    /\ seconds' = [seconds EXCEPT ![e] = Unset]
    /\ pc' = [pc EXCEPT ![e] = "done"]
    /\ UNCHANGED <<sp, spv, env, self, entry>>

Next ==
    \E e \in Execs :
        \/ Enter(e)
        \/ Again(e)
        \/ PathExtract(e)
        \/ VarEval(e)
        \/ VarPop(e)
        \/ ValidateAndReturn(e)

Spec == Init /\ [][Next]_vars


\* ------------------------------------------------------------- properties
Done(e) == pc[e] = "done"
Last(e) == result[e][Len(result[e])]

\* the path, or the expression text, the resolver of e is configured with
ExprText(e) == IF self[e] = "sp" THEN sp.path ELSE spv.variable_sample.expression

\* the raw value e's call resolves: what the path points at in the state
\* input, or what the sample's evaluation yields
Raw(e) ==
    IF self[e] = "sp" THEN extract_json(sp.path, Top(entry[e]))
    ELSE [found |-> TRUE, value |-> env[e].variables]

Resolves(e, v) == Done(e) /\ Raw(e).found /\ Raw(e).value = v

CauseOf(outcome) == outcome.failure_event.event_details.executionFailedEventDetails.cause

\* two outcomes that differ at most in the environment the event refers to
SameOutcome(a, b) ==
    [a EXCEPT !.failure_event.env = "none"] = [b EXCEPT !.failure_event.env = "none"]

\* C1: a non-negative integer n resolved by either variant is returned,
\* exactly n, and no failure event is raised.
C1_NonNegativeReturned ==
    \A e \in Execs : \A n \in 0..MaxInt :
        Resolves(e, IntV(n)) => Last(e) = Returned(IntV(n))

C1_Witness ==
    \E e, f \in Execs :
        /\ self[e] = "sp" /\ self[f] = "spv"
        /\ Resolves(e, IntV(1)) /\ Resolves(f, IntV(0))
        /\ Last(e).kind = "return" /\ Last(f).kind = "return"

\* C2: a boolean resolved value is rejected by either variant with the
\* "cannot be parsed as a long value" cause and is never returned.
C2_BooleanRejected ==
    \A e \in Execs : \A b \in BOOLEAN :
        Resolves(e, BoolV(b)) =>
            /\ Last(e).kind = "raise"
            /\ CauseOf(Last(e)) = CauseNotLong \o ExprText(e) \o " == " \o PyStr(BoolV(b))

\* C3: a negative integer n makes either variant raise a failure event,
\* return no value, with the cause
\* "The SecondsPath parameter references a negative value: <path> == <n>".
C3_NegativeRaises ==
    \A e \in Execs : \A n \in (-MaxInt)..(-1) :
        Resolves(e, IntV(n)) =>
            /\ Last(e).kind = "raise"
            /\ Last(e).value = Unset
            /\ CauseOf(Last(e)) = CauseNegative \o ExprText(e) \o " == " \o IntToStr(n)
            /\ (n = -1 /\ ExprText(e) = "$.wait" =>
                  CauseOf(Last(e)) =
                    "The SecondsPath parameter references a negative value: $.wait == -1")

C3_Witness ==
    \E e, f \in Execs :
        /\ self[e] = "sp" /\ self[f] = "spv"
        /\ Resolves(e, IntV(-1)) /\ Resolves(f, IntV(-1))
        /\ Last(e).kind = "raise" /\ Last(f).kind = "raise"

\* C4: a string, a float (also one with zero fractional part, also a
\* negative one), a list, an object or null makes either variant raise with
\* the cause "The SecondsPath parameter cannot be parsed as a long value:
\* <path> == <value>", never the "negative value" cause, and is never
\* returned.
C4_NonIntegralRaises ==
    \A e \in Execs : \A v \in NonIntegral :
        Resolves(e, v) =>
            /\ Last(e).kind = "raise"
            /\ Last(e).value = Unset
            /\ CauseOf(Last(e)) = CauseNotLong \o ExprText(e) \o " == " \o PyStr(v)
            /\ (ExprText(e) = "$.wait" =>
                  CauseOf(Last(e)) =
                    "The SecondsPath parameter cannot be parsed as a long value: $.wait == "
                    \o ( CASE v = StrV("soon") -> "soon"
                           [] v = FloatV(30) -> "3.0"
                           [] v = FloatV(-15) -> "-1.5"
                           [] v = NoneV -> "None"
                           [] v = ListV(<<1, 2>>) -> "[1, 2]"
                           [] v.t = "dict" -> "{'a': 1}" ))

C4_Witness ==
    \E e, f \in Execs :
        /\ self[e] = "sp" /\ self[f] = "spv"
        /\ Resolves(e, FloatV(30)) /\ Resolves(f, FloatV(-15))
        /\ Last(e).kind = "raise" /\ Last(f).kind = "raise"

\* C5: the variable-based resolver leaves the stack as deep as it found it,
\* when it returns and when validation raises: the one pushed value is
\* popped before validation runs.
C5_VarStackDepth ==
    \A e \in Execs :
        self[e] = "spv" =>
            /\ (pc[e] = "pop" => Len(env[e].stack) = Len(entry[e]) + 1)
            /\ (pc[e] \in {"validate", "done"} => Len(env[e].stack) = Len(entry[e]))

C5_Witness ==
    \E e, f \in Execs :
        /\ self[e] = "spv" /\ self[f] = "spv"
        /\ Done(e) /\ Last(e).kind = "raise"
        /\ Done(f) /\ Last(f).kind = "return"

\* C6: both validation failures are raised as the same failure event and
\* never returned: error name States.Runtime, event type ExecutionFailed,
\* details whose error is the canonical name of the same category; two such
\* events differ only in the cause (and the environment they refer to).
C6_SameFailureEvent ==
    \A e \in Execs :
        /\ Done(e) /\ Raw(e).found
             /\ ~(Raw(e).value.t \in {"int", "bool"} /\ Raw(e).value.i >= 0)
           => Last(e).kind = "raise"
        /\ \A k \in DOMAIN result[e] :
             result[e][k].kind = "raise" =>
               LET ev == result[e][k].failure_event
               IN  /\ result[e][k].value = Unset
                   /\ ev.error_name = StatesErrorName(StatesRuntime)
                   /\ ev.error_name.error_name = "States.Runtime"
                   /\ ev.event_type = "ExecutionFailed"
                   /\ ev.event_details.executionFailedEventDetails.error
                        = ev.error_name.error_name
                   /\ \A f \in Execs : \A j \in DOMAIN result[f] :
                        result[f][j].kind = "raise" =>
                          LET ew == result[f][j].failure_event
                          IN  [ev EXCEPT !.env = "none",
                                 !.event_details.executionFailedEventDetails.cause = ""]
                              = [ew EXCEPT !.env = "none",
                                   !.event_details.executionFailedEventDetails.cause = ""]

C6_Witness ==
    \E e, f \in Execs :
        /\ Resolves(e, StrV("soon")) /\ Last(e).kind = "raise"
        /\ Resolves(f, IntV(-1)) /\ Last(f).kind = "raise"
        /\ CauseOf(Last(e)) # CauseOf(Last(f))


\* C7: a variable-based resolver with expression text p whose evaluation
\* yields v ends as a path-based resolver with path p whose extraction
\* yields v: the same returned value, or a failure event with the same
\* error name, event type and cause rendered with p.
C7_VarEquivalentToPath ==
    \A e, f \in Execs :
        /\ self[e] = "sp" /\ self[f] = "spv"
        /\ sp.path = spv.variable_sample.expression
        /\ Done(e) /\ Done(f)
        /\ Raw(e).found /\ Raw(e).value = Raw(f).value
        => SameOutcome(Last(e), Last(f))

C7_Witness ==
    \E e, f \in Execs :
        /\ self[e] = "sp" /\ self[f] = "spv"
        /\ sp.path = spv.variable_sample.expression
        /\ Resolves(e, StrV("soon")) /\ Resolves(f, StrV("soon"))
        /\ Last(e).kind = "raise" /\ Last(f).kind = "raise"
        /\ CauseOf(Last(e)) = CauseOf(Last(f))

\* C8: resolving twice against identical input data (twice in a row on one
\* environment, or on two environments) ends the same way, and no step
\* changes the configuration of the resolvers.
C8_SameInputSameResult ==
    \A e, f \in Execs :
        /\ \A k \in DOMAIN result[e] : result[e][k] = result[e][1]
        /\ ( /\ self[e] = self[f] /\ self[e] # "none"
             /\ env[e].variables = env[f].variables
             /\ result[e] # <<>> /\ result[f] # <<>>
             => SameOutcome(result[e][1], result[f][1]) )

C8_Idempotent == []C8_SameInputSameResult /\ [][sp' = sp /\ spv' = spv]_vars

C8_Witness ==
    \E e, f \in Execs :
        /\ e # f /\ self[e] = self[f]
        /\ env[e].variables = env[f].variables
        /\ Len(result[e]) = MaxRounds /\ Len(result[f]) = MaxRounds
        /\ Last(e).kind = "raise"

\* C9: the path-based resolver reads the state input without popping it and
\* leaves the stack as it was, when it returns and when validation raises;
\* building the failure event adds nothing to the environment.
C9_PathStackUnchanged ==
    \A e \in Execs :
        self[e] = "sp" => /\ env[e].stack = entry[e]
                          /\ Top(env[e].stack) = InputDoc(env[e].variables)

C9_Witness ==
    \E e, f \in Execs :
        /\ self[e] = "sp" /\ self[f] = "sp"
        /\ Done(e) /\ Last(e).kind = "raise"
        /\ Done(f) /\ Last(f).kind = "return"

\* what a call of e's resolver on e's input ends with when it runs alone
Alone(e) ==
    LET raw == Raw(e)
    IN  IF ~raw.found THEN Failed(NoSuchJsonPathError)
        ELSE LET v == _validate_seconds_value(Resolver(e), e, raw.value)
             IN  IF v.raised THEN Raised(v.failure_event) ELSE Returned(raw.value)

\* C10: with the steps of several executions on one shared resolver
\* interleaved, each execution ends as it would alone, a failure event
\* refers to the environment of the execution that raised it, and only an
\* execution's own steps change its environment.
C10_EachAsAlone ==
    \A e \in Execs : \A k \in DOMAIN result[e] :
        /\ result[e][k] = Alone(e)
        /\ (result[e][k].kind = "raise" => result[e][k].failure_event.env = e)

C10_Isolation ==
    /\ []C10_EachAsAlone
    /\ [][\A e \in Execs : env'[e] # env[e] => pc'[e] # pc[e]]_vars

C10_Witness ==
    \E e, f \in Execs :
        /\ e # f /\ self[e] = "spv" /\ self[f] = "spv"
        /\ pc[e] = "validate" /\ pc[f] = "validate"
        /\ Len(result[e]) = 1 /\ Len(result[f]) = 1
        /\ result[e][1].kind = "raise" /\ result[f][1].kind = "return"

====
